---- MODULE Spec2Model ----
(***************************************************************************)
(* A model of the EAV telemetry tools: the crash-event detector            *)
(* (crash_detection.py), the smoothing-window choice, the movement filter  *)
(* and the mass estimator (mass_estimation.py), and the log-to-CSV         *)
(* ingestion (text_to_excel.py).                                           *)
(*                                                                         *)
(* Floating-point quantities are modelled in fixed point, with the unit    *)
(* stated at each definition; comparisons are carried out exactly.         *)
(***************************************************************************)
EXTENDS Integers, Sequences, FiniteSets

VARIABLES
    \* detect_crashes (crash_detection.py)
    cooldown_time,            \* the cooldown_time argument, seconds
    rows,                     \* the rows of df the loop has consumed so far
    small_crashes,            \* list of <<time, accel_norm>>
    large_crashes,            \* list of <<time, accel_norm>>
    last_small_crash_time,
    last_large_crash_time,
    \* calculate_optimal_window / calculate_time_aware_window (mass_estimation.py)
    w_input,                  \* the argument: a data length or a time series
    w_call,                   \* which function has been applied ("none" before)
    w_result,                 \* the window size returned
    \* filter_moving_periods / estimate_mass (mass_estimation.py)
    df,                       \* the input samples, in row order
    has_speed,                \* 'Speed' in df.columns
    mass_pc,                  \* "start", "filtered", "returned" or the error raised
    df_moving,                \* the rows filter_moving_periods returns
    window_size,
    accel_smoothed,           \* df_moving['accel_smoothed']
    df_accelerating,          \* the per-sample result table
    \* process_data_file (text_to_excel.py)
    text_file,                \* the lines of data.txt
    csv_file,                 \* today's CSV: whether it exists, and its rows
    call_status,              \* how the last call ended ("none" before any call)
    calls,                    \* number of calls made
    written,                  \* every line the logger ever wrote, in order
    all_ordered               \* every text file handed to a call so far was time-ordered

crashVars == <<cooldown_time, rows, small_crashes, large_crashes,
               last_small_crash_time, last_large_crash_time>>

windowVars == <<w_input, w_call, w_result>>

massVars == <<df, has_speed, mass_pc, df_moving, window_size, accel_smoothed,
              df_accelerating>>

fileVars == <<text_file, csv_file, call_status, calls, written, all_ordered>>

vars == <<crashVars, windowVars, massVars, fileVars>>

\* The parts of the state a specification of another component leaves alone.
CrashIdle ==
    /\ cooldown_time = 0
    /\ rows = <<>>
    /\ small_crashes = <<>>
    /\ large_crashes = <<>>
    /\ last_small_crash_time = 0
    /\ last_large_crash_time = 0

WindowIdle ==
    /\ w_input = <<>>
    /\ w_call = "none"
    /\ w_result = 0

MassIdle ==
    /\ df = <<>>
    /\ has_speed = FALSE
    /\ mass_pc = "start"
    /\ df_moving = <<>>
    /\ window_size = 0
    /\ accel_smoothed = <<>>
    /\ df_accelerating = <<>>

FileIdle ==
    /\ text_file = <<>>
    /\ csv_file = [exists |-> FALSE, rows |-> <<>>]
    /\ call_status = "none"
    /\ calls = 0
    /\ written = <<>>
    /\ all_ordered = TRUE

(***************************************************************************)
(* Helpers                                                                 *)
(***************************************************************************)
RECURSIVE ISqrtFrom(_, _)
\* Heron's iteration from an estimate r >= sqrt(n): the largest integer whose
\* square is at most n.
ISqrtFrom(n, r) ==
    LET next == (r + n \div r) \div 2
    IN IF next >= r THEN r ELSE ISqrtFrom(n, next)

\* np.sqrt on a non-negative fixed-point argument, rounded down.
ISqrt(n) == IF n = 0 THEN 0 ELSE ISqrtFrom(n, IF n < 46340 THEN n ELSE 46340)

Max(a, b) == IF a >= b THEN a ELSE b

Min(a, b) == IF a <= b THEN a ELSE b

RECURSIVE SumSeq(_)
SumSeq(s) == IF s = <<>> THEN 0 ELSE s[1] + SumSeq(Tail(s))

RECURSIVE SumSquares(_)
SumSquares(s) == IF s = <<>> THEN 0 ELSE s[1] * s[1] + SumSquares(Tail(s))

RECURSIVE Insert(_, _)
Insert(x, s) ==
    IF s = <<>> THEN <<x>>
    ELSE IF x <= s[1] THEN <<x>> \o s
         ELSE <<s[1]>> \o Insert(x, Tail(s))

RECURSIVE SortSeq(_)
SortSeq(s) == IF s = <<>> THEN <<>> ELSE Insert(s[1], SortSeq(Tail(s)))

\* Running totals: <<s[1], s[1] + s[2], ...>>
RECURSIVE PrefixSums(_, _)
PrefixSums(s, acc) ==
    IF s = <<>> THEN <<>>
    ELSE <<acc + s[1]>> \o PrefixSums(Tail(s), acc + s[1])

\* The sequence <<F(1), ..., F(n)>>.
RECURSIVE BuildFrom(_, _, _)
BuildFrom(F(_), i, n) ==
    IF i > n THEN <<>> ELSE <<F(i)>> \o BuildFrom(F, i + 1, n)

BuildSeq(F(_), n) == BuildFrom(F, 1, n)

\* Every sequence over S of length at most n.
SeqsUpTo(S, n) == UNION {[1..k -> S] : k \in 0..n}

(***************************************************************************)
(* crash_detection.py: detect_crashes                                      *)
(* Times are whole seconds (main derives Time_sec from HH:MM:SS stamps);   *)
(* accelerations are in units of 0.1 m/s^2.                                *)
(***************************************************************************)
SMALL_CRASH_THRESHOLD == 981      \* 10 * 9.81 m/s^2
LARGE_CRASH_THRESHOLD == 2943     \* 30 * 9.81 m/s^2
COOLDOWN_TIME == 2

MaxRows == 4          \* rows of df
MaxTime == 6          \* largest Time_sec
MaxCooldown == 3      \* largest cooldown_time argument

\* main takes Time_sec relative to the earliest stamp, so it is never negative.
CrashTimes == 0 .. MaxTime

\* x-axis_norm values: at the small threshold (no event, the bound is
\* exclusive), at the large threshold (Small range), above it (Large range).
CrashAccels == {SMALL_CRASH_THRESHOLD, LARGE_CRASH_THRESHOLD,
                LARGE_CRASH_THRESHOLD + 1}

CrashRow(t, x) == [Time_sec |-> t, x_norm |-> x, y_norm |-> 0, z_norm |-> 0]

\* line 38
AccelNorm(row) ==
    ISqrt(row.x_norm * row.x_norm + row.y_norm * row.y_norm
          + row.z_norm * row.z_norm)

\* line 35
InitialLastCrashTime(cd) == 0 - cd

CooldownElapsedStrict(time, last, cd) == time - last > cd

CooldownElapsedShort(time, last, cd) == time - last >= cd - 1

\* lines 40 and 45: time - last_..._crash_time >= cooldown_time
CooldownElapsed(time, last, cd) == time - last >= cd

LastTimesAfterLargeKeepLarge(time, ll) == [large |-> ll, small |-> time]

\* lines 42-43: a Large event restarts both cooldowns
LastTimesAfterLarge(time, ll) == [large |-> time, small |-> time]

\* One iteration of the loop of lines 36-47 on the next row of df.
ProcessRow(t, x) ==
    LET row == CrashRow(t, x)
        time == row.Time_sec
        accel_norm == AccelNorm(row)
    IN /\ Len(rows) < MaxRows
       /\ Len(rows) > 0 => rows[Len(rows)].Time_sec <= t
       /\ rows' = Append(rows, row)
       /\ IF accel_norm > LARGE_CRASH_THRESHOLD
          THEN IF CooldownElapsed(time, last_large_crash_time, cooldown_time)
               THEN LET lt == LastTimesAfterLarge(time, last_large_crash_time)
                    IN /\ large_crashes' = Append(large_crashes, <<time, accel_norm>>)
                       /\ last_large_crash_time' = lt.large
                       /\ last_small_crash_time' = lt.small
                       /\ UNCHANGED small_crashes
               ELSE UNCHANGED <<small_crashes, large_crashes,
                                last_small_crash_time, last_large_crash_time>>
          ELSE IF accel_norm > SMALL_CRASH_THRESHOLD
               THEN IF /\ CooldownElapsed(time, last_small_crash_time, cooldown_time)
                       /\ CooldownElapsed(time, last_large_crash_time, cooldown_time)
                    THEN /\ small_crashes' = Append(small_crashes, <<time, accel_norm>>)
                         /\ last_small_crash_time' = time
                         /\ UNCHANGED <<large_crashes, last_large_crash_time>>
                    ELSE UNCHANGED <<small_crashes, large_crashes,
                                     last_small_crash_time, last_large_crash_time>>
               ELSE UNCHANGED <<small_crashes, large_crashes,
                                last_small_crash_time, last_large_crash_time>>
       /\ UNCHANGED <<cooldown_time, windowVars, massVars, fileVars>>

\* lines 34-35: the state detect_crashes starts from
CrashInit ==
    /\ cooldown_time \in COOLDOWN_TIME .. MaxCooldown
    /\ rows = <<>>
    /\ small_crashes = <<>>
    /\ large_crashes = <<>>
    /\ last_small_crash_time = InitialLastCrashTime(cooldown_time)
    /\ last_large_crash_time = InitialLastCrashTime(cooldown_time)

DetectCrashesStep == \E t \in CrashTimes, x \in CrashAccels : ProcessRow(t, x)

InitCrash == CrashInit /\ WindowIdle /\ MassIdle /\ FileIdle
NextCrash == DetectCrashesStep
SpecCrash == InitCrash /\ [][NextCrash]_vars

(***************************************************************************)
(* Properties of detect_crashes                                            *)
(***************************************************************************)
LargeRange(row) == AccelNorm(row) > LARGE_CRASH_THRESHOLD

SmallRange(row) ==
    AccelNorm(row) > SMALL_CRASH_THRESHOLD /\ ~LargeRange(row)

AllRowsLarge == \A i \in 1..Len(rows) : LargeRange(rows[i])

Duration == rows[Len(rows)].Time_sec - rows[1].Time_sec

\* The case of C1: a non-empty series above the large threshold throughout,
\* lasting longer than the cooldown.
SustainedLarge ==
    /\ Len(rows) > 0
    /\ AllRowsLarge
    /\ Duration > cooldown_time

\* There is a sample at first + k * cooldown_time for every k up to
\* floor(duration / cooldown_time), and the first time is not negative.
SampledOnCooldownGrid ==
    /\ rows[1].Time_sec >= 0
    /\ \A k \in 0..(Duration \div cooldown_time) :
          \E i \in 1..Len(rows) :
              rows[i].Time_sec = rows[1].Time_sec + k * cooldown_time

\* C1 (as stated): a series that exceeds the large threshold at every sample
\* and lasts longer than cooldown_time yields exactly
\* floor(duration / cooldown_time) + 1 Large events.
C1_ExactLargeCount ==
    SustainedLarge =>
        Len(large_crashes) = Duration \div cooldown_time + 1

\* C1 (amended): such a series yields at most floor(duration / cooldown_time)
\* + 1 Large events, and exactly that many when the first time is >= 0 and a
\* sample falls on first + k * cooldown_time for every k.
C1_LargeCountOnGrid ==
    SustainedLarge =>
        /\ Len(large_crashes) <= Duration \div cooldown_time + 1
        /\ SampledOnCooldownGrid =>
              Len(large_crashes) = Duration \div cooldown_time + 1

\* A sustained series sampled on the grid, with samples between the grid
\* points that the cooldown swallowed.
C1_Witness ==
    /\ SustainedLarge
    /\ SampledOnCooldownGrid
    /\ Len(large_crashes) = Duration \div cooldown_time + 1
    /\ Len(large_crashes) >= 2
    /\ Len(rows) > Len(large_crashes)

SpacedByCooldown(events) ==
    \A i, j \in 1..Len(events) :
        i < j => events[j][1] - events[i][1] >= cooldown_time

\* C2: any two Large events are at least cooldown_time apart, and so are any
\* two Small events.
C2_SameSeveritySpaced ==
    /\ SpacedByCooldown(large_crashes)
    /\ SpacedByCooldown(small_crashes)

C2_Witness ==
    /\ Len(large_crashes) >= 2
    /\ Len(small_crashes) >= 2

\* C3: once a Large event has been emitted at time T, the scan emits no Small
\* event at a later sample whose time lies in [T, T + cooldown_time).
C3_NoSmallAfterLarge ==
    [][Len(small_crashes') > Len(small_crashes) =>
         LET t == small_crashes'[Len(small_crashes')][1]
         IN \A i \in 1..Len(large_crashes) :
                ~(large_crashes[i][1] <= t
                  /\ t < large_crashes[i][1] + cooldown_time)]_vars

\* A Small event, then a Large event at T, then a sample in the Small range
\* inside [T, T + cooldown_time) that produced no event.
C3_Witness ==
    \E j, k \in 1..Len(rows) :
        /\ j < k
        /\ LargeRange(rows[j])
        /\ \E e \in 1..Len(large_crashes) :
              large_crashes[e][1] = rows[j].Time_sec
        /\ SmallRange(rows[k])
        /\ rows[k].Time_sec < rows[j].Time_sec + cooldown_time
        /\ Len(small_crashes) = 1
        /\ small_crashes[1][1] < rows[j].Time_sec

(***************************************************************************)
(* mass_estimation.py: the smoothing-window size                           *)
(* Times are in ticks of 0.01 s.                                           *)
(***************************************************************************)
MIN_WINDOW_SIZE == 5
MAX_WINDOW_SIZE == 50
TARGET_WINDOW_RATIO_INV == 10     \* TARGET_WINDOW_RATIO = 0.1 = 1 / 10
target_window_duration == 100     \* 1.0 s

MaxDataLength == 520      \* largest data_length argument
MaxSeriesLen == 4         \* longest time_series argument

\* Inter-sample intervals of the time series, in ticks.
WindowIntervals == {0, 1, 2, 3, 20, 100}

\* line 43 and line 50: an even size is raised to the next odd one
NextOdd(n) == IF n % 2 = 0 THEN n + 1 ELSE n

\* lines 42 and 47-49: max(MIN_WINDOW_SIZE, min(MAX_WINDOW_SIZE, n))
ClampWindow(n) == Max(MIN_WINDOW_SIZE, Min(MAX_WINDOW_SIZE, n))

\* lines 45-50; int(0.1 * data_length) is data_length \div 10 for lengths >= 0
calculate_optimal_window(data_length) ==
    LET suggested == ClampWindow(data_length \div TARGET_WINDOW_RATIO_INV)
    IN NextOdd(suggested)

\* np.diff
Diff(s) == BuildSeq(LAMBDA i : s[i + 1] - s[i], Len(s) - 1)

\* Twice np.median of a non-empty sequence (the median of an even number of
\* values is the mean of the two middle ones).
Median2(s) ==
    LET sorted == SortSeq(s)
        n == Len(s)
    IN IF n % 2 = 1 THEN 2 * sorted[(n + 1) \div 2]
       ELSE sorted[n \div 2] + sorted[n \div 2 + 1]

\* np.std(d) > 2 * median, for a positive median: compared as
\* n^2 * variance > n^2 * (2 * median)^2, with n^2 * variance =
\* n * sum(d^2) - sum(d)^2 (np.std is the population deviation).
StdExceedsTwiceMedian(d, med2) ==
    Len(d) * SumSquares(d) - SumSeq(d) * SumSeq(d) > med2 * med2 * Len(d) * Len(d)

\* lines 20-43
calculate_time_aware_window(time_series) ==
    IF Len(time_series) < 2 THEN MIN_WINDOW_SIZE
    ELSE LET time_diffs == Diff(time_series)
             med2 == Median2(time_diffs)
         IN IF med2 <= 0 \/ StdExceedsTwiceMedian(time_diffs, med2)
            THEN calculate_optimal_window(Len(time_series))
            ELSE LET target_points == (2 * target_window_duration) \div med2
                 IN NextOdd(ClampWindow(target_points))

\* The arguments the two functions are applied to.
WindowInputs ==
    {[kind |-> "length", data_length |-> n, time_series |-> <<>>] :
        n \in 0..MaxDataLength}
    \cup
    {[kind |-> "series", data_length |-> 0, time_series |-> ts] :
        ts \in {<<>>} \cup {<<0>> \o PrefixSums(d, 0) :
                    d \in SeqsUpTo(WindowIntervals, MaxSeriesLen - 1)}}

WindowInit ==
    /\ w_input \in WindowInputs
    /\ w_call = "none"
    /\ w_result = 0

CallOptimalWindow ==
    /\ w_call = "none"
    /\ w_input.kind = "length"
    /\ w_result' = calculate_optimal_window(w_input.data_length)
    /\ w_call' = "calculate_optimal_window"
    /\ UNCHANGED <<w_input, crashVars, massVars, fileVars>>

CallTimeAwareWindow ==
    /\ w_call = "none"
    /\ w_input.kind = "series"
    /\ w_result' = calculate_time_aware_window(w_input.time_series)
    /\ w_call' = "calculate_time_aware_window"
    /\ UNCHANGED <<w_input, crashVars, massVars, fileVars>>

InitWindow == WindowInit /\ CrashIdle /\ MassIdle /\ FileIdle
NextWindow == CallOptimalWindow \/ CallTimeAwareWindow
SpecWindow == InitWindow /\ [][NextWindow]_vars

\* C4: the window size either function returns lies in
\* [MIN_WINDOW_SIZE, MAX_WINDOW_SIZE] and is odd.
C4_WindowInBoundsAndOdd ==
    w_call # "none" =>
        /\ MIN_WINDOW_SIZE <= w_result
        /\ w_result <= MAX_WINDOW_SIZE
        /\ w_result % 2 = 1

(***************************************************************************)
(* mass_estimation.py: filter_moving_periods, smooth_data, estimate_mass   *)
(* Accelerations are in units of 0.0001 m/s^2, speeds in 0.0001 m/s, times *)
(* in ticks of 0.01 s, masses in units of 0.1 kg.                          *)
(***************************************************************************)
MOTOR_FORCE == 55665                      \* 556.65 N, in units of 0.01 N
ROLLING_RESISTANCE_COEFFICIENT == 12      \* 0.12, in hundredths
GRAVITY == 98100                          \* 9.81 m/s^2
MIN_ACCELERATION == 2000                  \* 0.2 m/s^2
MIN_MOVING_SPEED == 5000                  \* 0.5 m/s
MovementAccelFloor == 1000                \* the 0.1 of line 72

\* line 113: 1.04 + 0.0025 * 7.6^2 = 1.1844, in units of 0.0001
EquivalentMassFactor == 10400 + (25 * 76 * 76) \div 100

MaxSamples == 6       \* rows of df

\* x-axis_norm values: at the movement floor (not moving, the bound is
\* exclusive), at MIN_ACCELERATION (moving, not a valid acceleration), and a
\* clear acceleration of 1 m/s^2.
MassAccels == {MovementAccelFloor, MIN_ACCELERATION, 10000}

\* Speed values: at MIN_MOVING_SPEED (not moving) and just above it.
MassSpeeds == {MIN_MOVING_SPEED, MIN_MOVING_SPEED + 1}

\* Roll angles in degrees (Pitch is 0 throughout), as a profile over the
\* rows: level ground, a constant 30 degree tilt, and a tilt on every second
\* row.
RollProfiles == {"level", "tilted", "alternating"}

RollAt(profile, i) ==
    IF profile = "tilted" \/ (profile = "alternating" /\ i % 2 = 0) THEN 30
    ELSE 0

\* Sampling intervals in ticks: 0.15 s and 1 s.
SampleIntervals == {15, 100}

Sample(i, dt, x, roll) ==
    [idx |-> i - 1, Time |-> (i - 1) * dt,
     x_norm |-> x, y_norm |-> 0, z_norm |-> 0, Roll |-> roll, Pitch |-> 0]

SampleWithSpeed(i, dt, x, speed) ==
    [idx |-> i - 1, Time |-> (i - 1) * dt, Speed |-> speed,
     x_norm |-> x, y_norm |-> 0, z_norm |-> 0, Roll |-> 0, Pitch |-> 0]

\* lines 69-71 and 96-98
AccelMagnitude(row) ==
    ISqrt(row.x_norm * row.x_norm + row.y_norm * row.y_norm
          + row.z_norm * row.z_norm)

\* lines 65-72: the raw moving mask, one boolean per row
MovingMask(d, speed_column) ==
    BuildSeq(LAMBDA i : IF speed_column THEN d[i].Speed > MIN_MOVING_SPEED
                        ELSE AccelMagnitude(d[i]) > MovementAccelFloor,
             Len(d))

\* Series.shift(1, fill_value=False)
ShiftDown(mask) ==
    BuildSeq(LAMBDA i : IF i > 1 THEN mask[i - 1] ELSE FALSE, Len(mask))

\* Series.shift(-1, fill_value=False)
ShiftUp(mask) ==
    BuildSeq(LAMBDA i : IF i < Len(mask) THEN mask[i + 1] ELSE FALSE, Len(mask))

ShiftedMaskOneSided(moving_mask) == ShiftDown(moving_mask)

\* line 75
ShiftedMask(moving_mask) ==
    LET down == ShiftDown(moving_mask)
        up == ShiftUp(moving_mask)
    IN BuildSeq(LAMBDA i : down[i] \/ up[i], Len(moving_mask))

\* d[mask]: the rows whose mask entry is true, in order
RECURSIVE SelectFrom(_, _, _)
SelectFrom(d, mask, i) ==
    IF i > Len(d) THEN <<>>
    ELSE (IF mask[i] THEN <<d[i]>> ELSE <<>>) \o SelectFrom(d, mask, i + 1)

SelectRows(d, mask) == SelectFrom(d, mask, 1)

\* lines 59-76
filter_moving_periods(d, speed_column) ==
    LET moving_mask == MovingMask(d, speed_column)
        shifted_mask == ShiftedMask(moving_mask)
    IN SelectRows(d, BuildSeq(LAMBDA i : moving_mask[i] \/ shifted_mask[i],
                              Len(d)))

\* A smoothed value: not-a-number, or the exact fraction num / den (den > 0).
NaN == [nan |-> TRUE, num |-> 0, den |-> 1]

Frac(n, d) == [nan |-> FALSE, num |-> n, den |-> d]

\* line 56: series.rolling(window=w, center=True).mean(). The window of
\* row i ends (w - 1) \div 2 rows after it; a window reaching outside the
\* series has fewer than min_periods = w values and gives NaN.
RollingMeanCentered(series, w) ==
    BuildSeq(LAMBDA i :
                 LET last == i + (w - 1) \div 2
                     first == last - w + 1
                 IN IF first < 1 \/ last > Len(series) THEN NaN
                    ELSE Frac(SumSeq(SubSeq(series, first, last)), w),
             Len(series))

\* The least-squares parabola through the 2m + 1 values y, taken at the
\* positions -m..m, evaluated at position t.
FitQuadraticAt(y, m, t) ==
    LET w == 2 * m + 1
        pos(k) == k - m - 1
        S2 == SumSeq(BuildSeq(LAMBDA k : pos(k) * pos(k), w))
        S4 == SumSeq(BuildSeq(LAMBDA k : pos(k) * pos(k) * pos(k) * pos(k), w))
        Sy == SumSeq(y)
        Sjy == SumSeq(BuildSeq(LAMBDA k : pos(k) * y[k], w))
        Sj2y == SumSeq(BuildSeq(LAMBDA k : pos(k) * pos(k) * y[k], w))
        D == w * S4 - S2 * S2
    IN Frac(S2 * (S4 * Sy - S2 * Sj2y) + D * t * Sjy
              + S2 * t * t * (w * Sj2y - S2 * Sy),
            D * S2)

\* line 57: savgol_filter(series, window_size, 2), mode 'interp': an inner
\* row is the fit over the window centred on it; the first and last
\* window_size \div 2 rows are read off the fit over the first and last window.
SavgolFilter(series, w) ==
    LET n == Len(series)
        m == w \div 2
    IN BuildSeq(LAMBDA i :
          IF i <= m THEN FitQuadraticAt(SubSeq(series, 1, w), m, i - (m + 1))
          ELSE IF i > n - m
               THEN FitQuadraticAt(SubSeq(series, n - w + 1, n), m, i - (n - m))
               ELSE FitQuadraticAt(SubSeq(series, i - m, i + m), m, 0),
          n)

\* lines 52-57
smooth_data(series, w) ==
    IF Len(series) < w THEN RollingMeanCentered(series, Min(3, Len(series)))
    ELSE SavgolFilter(series, w)

\* line 102: accel_smoothed > MIN_ACCELERATION (false for NaN)
ValidAccel(a) == ~a.nan /\ a.num > MIN_ACCELERATION * a.den

\* tan(angle)^2 in thousandths, for the angles of RollAt (0 and 30 degrees)
Tan2Milli(deg) == IF deg = 0 THEN 0 ELSE 333

\* lines 91-93 and 112: sin(arctan(sqrt(tan(roll)^2 + tan(pitch)^2))), in
\* thousandths; sin(arctan(u)) = sqrt(u^2 / (1 + u^2)).
SinInclineMilli(row) ==
    LET u2 == Tan2Milli(row.Roll) + Tan2Milli(row.Pitch)
    IN ISqrt((1000000 * u2) \div (1000 + u2))

\* lines 109-113, with accel_smoothed rounded down to the acceleration unit
MassEstimate(row, a) ==
    LET accel == a.num \div a.den
        rolling == (ROLLING_RESISTANCE_COEFFICIENT * GRAVITY) \div 100
        grade == ((GRAVITY \div 100) * SinInclineMilli(row)) \div 10
    IN (MOTOR_FORCE * EquivalentMassFactor) \div (10 * (accel + rolling + grade))

\* line 116: expanding().mean() at row k, the exact fraction sum / k
expanding_mean(xs, k) == Frac(SumSeq(SubSeq(xs, 1, k)), k)

expanding_std_population(xs, k) ==
    LET head == SubSeq(xs, 1, k)
    IN Frac(k * SumSquares(head) - SumSeq(head) * SumSeq(head), k * k)

\* line 117: expanding().std() at row k. pandas takes the sample deviation
\* (ddof = 1), which is NaN for a single value. The value held is the square
\* of the deviation, the exact fraction
\* (k * sum(x^2) - sum(x)^2) / (k * (k - 1)); it is zero exactly when the
\* deviation is.
expanding_std(xs, k) ==
    LET head == SubSeq(xs, 1, k)
    IN IF k < 2 THEN NaN
       ELSE Frac(k * SumSquares(head) - SumSeq(head) * SumSeq(head),
                 k * (k - 1))

NoMovingPeriodsNever(moving) == FALSE

\* line 83
NoMovingPeriods(moving) == Len(moving) = 0

\* What the caller of estimate_mass sees: outcome is "returned", or names the
\* ValueError raised; the other fields are the locals as far as they were
\* computed.
MassOutcome(what, moving, w, smoothed, trace) ==
    [outcome |-> what, df_moving |-> moving, window_size |-> w,
     accel_smoothed |-> smoothed, df_accelerating |-> trace]

\* lines 116-119: the expanding statistics, and the table returned
WithConvergence(moving, w, smoothed, accelerating, smoothed_kept, mass) ==
    MassOutcome("returned", moving, w, smoothed,
        BuildSeq(LAMBDA k : [idx |-> accelerating[k].idx,
                             Time |-> accelerating[k].Time,
                             accel_smoothed |-> smoothed_kept[k],
                             mass_estimate |-> mass[k],
                             cumulative_mean |-> expanding_mean(mass, k),
                             cumulative_std |-> expanding_std(mass, k)],
                 Len(accelerating)))

\* lines 105-113: the second ValueError, else the mass of every kept row
WithAccelerating(moving, w, smoothed, accelerating, smoothed_kept) ==
    IF Len(accelerating) = 0
    THEN MassOutcome("no_valid_acceleration", moving, w, smoothed, <<>>)
    ELSE WithConvergence(moving, w, smoothed, accelerating, smoothed_kept,
             BuildSeq(LAMBDA k : MassEstimate(accelerating[k], smoothed_kept[k]),
                      Len(accelerating)))

\* lines 102-103: valid_accel and df_accelerating = df_moving[valid_accel]
WithValidAccel(moving, w, smoothed, valid_accel) ==
    WithAccelerating(moving, w, smoothed, SelectRows(moving, valid_accel),
                     SelectRows(smoothed, valid_accel))

\* line 102: valid_accel, one boolean per row of df_moving
WithSmoothed(moving, w, smoothed) ==
    WithValidAccel(moving, w, smoothed,
        BuildSeq(LAMBDA i : ValidAccel(smoothed[i]), Len(moving)))

\* line 99: accel_smoothed
WithWindow(moving, w, accel_magnitude) ==
    WithSmoothed(moving, w, smooth_data(accel_magnitude, w))

\* lines 83-98: the first ValueError, else window_size and accel_magnitude
FromMoving(moving) ==
    IF NoMovingPeriods(moving)
    THEN MassOutcome("no_moving_periods", moving, 0, <<>>, <<>>)
    ELSE WithWindow(moving,
             calculate_time_aware_window(
                 BuildSeq(LAMBDA i : moving[i].Time, Len(moving))),
             BuildSeq(LAMBDA i : AccelMagnitude(moving[i]), Len(moving)))

\* lines 78-119
estimate_mass(d, speed_column) ==
    FromMoving(filter_moving_periods(d, speed_column))

\* The tables handed to estimate_mass: no Speed column, as in the CSV that
\* process_data_file writes; rows at a regular interval, sorted by Time.
MassFrames ==
    {[i \in 1..Len(xs) |-> Sample(i, dt, xs[i], RollAt(profile, i))] :
        dt \in SampleIntervals, profile \in RollProfiles,
        xs \in SeqsUpTo(MassAccels, MaxSamples)}

\* The tables handed to filter_moving_periods alone, with a Speed column.
SpeedFrames ==
    {[i \in 1..Len(speeds) |-> SampleWithSpeed(i, 100, 10000, speeds[i])] :
        speeds \in SeqsUpTo(MassSpeeds, MaxSamples)}

MassInit ==
    /\ has_speed = FALSE
    /\ df \in MassFrames
    /\ mass_pc = "start"
    /\ df_moving = <<>>
    /\ window_size = 0
    /\ accel_smoothed = <<>>
    /\ df_accelerating = <<>>

FilterInit ==
    /\ \/ has_speed = TRUE /\ df \in SpeedFrames
       \/ has_speed = FALSE /\ df \in MassFrames
    /\ mass_pc = "start"
    /\ df_moving = <<>>
    /\ window_size = 0
    /\ accel_smoothed = <<>>
    /\ df_accelerating = <<>>

CallFilterMovingPeriods ==
    /\ mass_pc = "start"
    /\ df_moving' = filter_moving_periods(df, has_speed)
    /\ mass_pc' = "filtered"
    /\ UNCHANGED <<df, has_speed, window_size, accel_smoothed, df_accelerating,
                   crashVars, windowVars, fileVars>>

CallEstimateMass ==
    /\ mass_pc = "start"
    /\ \E r \in {estimate_mass(df, has_speed)} :
          /\ mass_pc' = r.outcome
          /\ df_moving' = r.df_moving
          /\ window_size' = r.window_size
          /\ accel_smoothed' = r.accel_smoothed
          /\ df_accelerating' = r.df_accelerating
    /\ UNCHANGED <<df, has_speed, crashVars, windowVars, fileVars>>

InitFilter == FilterInit /\ CrashIdle /\ WindowIdle /\ FileIdle
NextFilter == CallFilterMovingPeriods
SpecFilter == InitFilter /\ [][NextFilter]_vars

InitMass == MassInit /\ CrashIdle /\ WindowIdle /\ FileIdle
NextMass == CallEstimateMass
SpecMass == InitMass /\ [][NextMass]_vars

(***************************************************************************)
(* Properties of filter_moving_periods and estimate_mass                   *)
(***************************************************************************)
\* The raw moving test on row i of df, false outside the table. The
\* magnitude test is taken on the squares.
RawMoving(i) ==
    /\ i \in 1..Len(df)
    /\ IF has_speed THEN df[i].Speed > MIN_MOVING_SPEED
       ELSE df[i].x_norm * df[i].x_norm + df[i].y_norm * df[i].y_norm
                + df[i].z_norm * df[i].z_norm
            > MovementAccelFloor * MovementAccelFloor

MovingOrBesideMoving(i) == RawMoving(i) \/ RawMoving(i - 1) \/ RawMoving(i + 1)

KeptExactlyTheNeighbourhood ==
    /\ \A k \in 1..Len(df_moving) :
          \E i \in 1..Len(df) : df[i] = df_moving[k] /\ MovingOrBesideMoving(i)
    /\ \A i \in 1..Len(df) :
          MovingOrBesideMoving(i) => \E k \in 1..Len(df_moving) : df_moving[k] = df[i]
    /\ \A k, l \in 1..Len(df_moving) :
          k < l => df_moving[k].idx < df_moving[l].idx

\* C8: filter_moving_periods keeps exactly the rows i for which row i, row
\* i - 1 or row i + 1 passes the raw moving test, in their original order,
\* and the table it was given keeps all its rows.
C8_FilterKeepsNeighbours ==
    /\ [](mass_pc = "filtered" => KeptExactlyTheNeighbourhood)
    /\ [][df' = df]_vars

\* A row kept only for the moving row after it, a row kept only for the
\* moving row before it, and a row dropped.
C8_Witness ==
    /\ mass_pc = "filtered"
    /\ \E i \in 1..Len(df) :
          ~RawMoving(i) /\ ~RawMoving(i - 1) /\ RawMoving(i + 1)
    /\ \E i \in 1..Len(df) :
          ~RawMoving(i) /\ RawMoving(i - 1) /\ ~RawMoving(i + 1)
    /\ \E i \in 1..Len(df) : ~MovingOrBesideMoving(i)
    /\ Len(df_moving) < Len(df)
    /\ Len(df_moving) > 0

\* C6: estimate_mass raises "No moving periods detected" exactly when no row
\* passes the widened moving mask, raises "No valid acceleration events"
\* exactly when rows are moving but none has a smoothed acceleration above
\* MIN_ACCELERATION, and otherwise returns at least one per-sample estimate;
\* an error comes with no result rows.
C6_ErrorsOrNonEmptyResult ==
    mass_pc # "start" =>
        LET someMoving == \E i \in 1..Len(df) : MovingOrBesideMoving(i)
            someValid == \E k \in 1..Len(accel_smoothed) :
                            ValidAccel(accel_smoothed[k])
        IN /\ mass_pc \in {"returned", "no_moving_periods", "no_valid_acceleration"}
           /\ mass_pc = "no_moving_periods" <=> ~someMoving
           /\ mass_pc = "no_valid_acceleration" <=> (someMoving /\ ~someValid)
           /\ mass_pc = "returned" <=> Len(df_accelerating) >= 1
           /\ \A k \in 1..Len(df_accelerating) :
                 df_accelerating[k].mass_estimate > 0

\* Moving rows, none of them a valid acceleration: the second error.
C6_Witness ==
    /\ mass_pc = "no_valid_acceleration"
    /\ Len(df_moving) >= 2
    /\ df_accelerating = <<>>

ConstantMassSeries ==
    /\ mass_pc = "returned"
    /\ \A k \in 1..Len(df_accelerating) :
          df_accelerating[k].mass_estimate = df_accelerating[1].mass_estimate

IsZero(v) == ~v.nan /\ v.num = 0

IsValue(v, c) == ~v.nan /\ v.num = c * v.den

\* C5 (as stated): over a constant mass_estimate series cumulative_std is zero
\* at every row of the trace, the first included, and cumulative_mean is the
\* constant at every row.
C5_ZeroStdThroughout ==
    ConstantMassSeries =>
        \A k \in 1..Len(df_accelerating) :
            /\ IsZero(df_accelerating[k].cumulative_std)
            /\ IsValue(df_accelerating[k].cumulative_mean,
                       df_accelerating[1].mass_estimate)

\* C5 (amended): over a constant mass_estimate series cumulative_std is
\* not-a-number at the first row and zero at every later row, and
\* cumulative_mean is the constant at every row.
C5_ZeroStdAfterFirst ==
    ConstantMassSeries =>
        \A k \in 1..Len(df_accelerating) :
            /\ k = 1 => df_accelerating[k].cumulative_std.nan
            /\ k > 1 => IsZero(df_accelerating[k].cumulative_std)
            /\ IsValue(df_accelerating[k].cumulative_mean,
                       df_accelerating[1].mass_estimate)

C5_Witness ==
    /\ ConstantMassSeries
    /\ Len(df_accelerating) >= 3

(***************************************************************************)
(* text_to_excel.py: process_data_file                                     *)
(* A line of data.txt is held as what the parse reads from it: the number  *)
(* of ' | '-separated parts, whether the Time value is a number, the Time  *)
(* value and the GPS part. The 3-axis, Roll, Pitch and Yaw parts are       *)
(* parsed like Time and carry the same values on every line. All calls     *)
(* fall on one date, so they share one CSV.                                *)
(***************************************************************************)
MaxWritten == 4       \* lines the logger writes in all
MaxCalls == 3         \* calls of process_data_file

LogLine(t, gps) == [nparts |-> 6, time_ok |-> TRUE, Time |-> t, gps_part |-> gps]

\* An empty line: strip().split(' | ') gives one empty part.
BlankLine == [nparts |-> 1, time_ok |-> FALSE, Time |-> 0, gps_part |-> ""]

\* A line whose Time value is not a number.
GarbledLine == [nparts |-> 6, time_ok |-> FALSE, Time |-> 0, gps_part |-> "GPS: Invalid"]

LogLines ==
    {LogLine(0, "GPS: Invalid"), LogLine(1, "GPS: 51.5,-0.1"),
     LogLine(0 - 1, "GPS: Invalid"), BlankLine, GarbledLine}

\* lines 32-64, one line: the error raised, or the row read
ParseLine(line) ==
    IF line.nparts < 6 THEN [error |-> "IndexError"]
    ELSE IF ~line.time_ok THEN [error |-> "ValueError"]
    ELSE [error |-> "none",
          row |-> [Time |-> line.Time,
                   Lat |-> IF line.gps_part = "GPS: Invalid" THEN "Invalid"
                           ELSE "51.5",
                   Long |-> IF line.gps_part = "GPS: Invalid" THEN "Invalid"
                            ELSE "-0.1"]]

\* lines 30-64: the first error the loop meets, "none" if every line parses
RECURSIVE ParseError(_)
ParseError(lines) ==
    IF lines = <<>> THEN "none"
    ELSE IF ParseLine(lines[1]).error # "none" THEN ParseLine(lines[1]).error
         ELSE ParseError(Tail(lines))

\* lines 66-79: df_new, for lines that all parse
NewData(lines) == BuildSeq(LAMBDA i : ParseLine(lines[i]).row, Len(lines))

TimeOffsetNoGap(last_time_value) == last_time_value

\* line 98: the offset added to the new Time values
TimeOffset(last_time_value) == last_time_value + 1

ShiftTime(df_new, offset) ==
    BuildSeq(LAMBDA i : [df_new[i] EXCEPT !.Time = @ + offset], Len(df_new))

RaisedAfterWipe(error, lines, csv) ==
    [status |-> error, text_file |-> <<>>, csv_file |-> csv]

\* An exception leaves process_data_file before line 102: nothing is written.
Raised(error, lines, csv) ==
    [status |-> error, text_file |-> lines, csv_file |-> csv]

\* lines 5-117: the outcome of a call on the text file's lines and the CSV
process_data_file(lines, csv) ==
    IF ParseError(lines) # "none" THEN Raised(ParseError(lines), lines, csv)
    ELSE LET df_new == NewData(lines)
         IN IF csv.exists
            THEN IF csv.rows = <<>>
                 \* line 96: iloc[-1] on a CSV that holds only the header
                 THEN Raised("IndexError", lines, csv)
                 ELSE LET last_time_value == csv.rows[Len(csv.rows)].Time
                          df_combined ==
                              csv.rows \o ShiftTime(df_new, TimeOffset(last_time_value))
                      IN [status |-> "ok", text_file |-> <<>>,
                          csv_file |-> [exists |-> TRUE, rows |-> df_combined]]
            ELSE [status |-> "ok", text_file |-> <<>>,
                  csv_file |-> [exists |-> TRUE, rows |-> df_new]]

NonDecreasing(times) ==
    \A i \in 1..(Len(times) - 1) : times[i] <= times[i + 1]

Times(table) == BuildSeq(LAMBDA i : table[i].Time, Len(table))

\* The Time values of a parsed text file are non-decreasing and >= 0.
TimeOrdered(df_new) ==
    /\ NonDecreasing(Times(df_new))
    /\ \A i \in 1..Len(df_new) : df_new[i].Time >= 0

FileInit ==
    /\ text_file = <<>>
    /\ csv_file = [exists |-> FALSE, rows |-> <<>>]
    /\ call_status = "none"
    /\ calls = 0
    /\ written = <<>>
    /\ all_ordered = TRUE

\* The logger appends a line to data.txt.
AppendLine(line) ==
    /\ Len(written) < MaxWritten
    /\ text_file' = Append(text_file, line)
    /\ written' = Append(written, line)
    /\ UNCHANGED <<csv_file, call_status, calls, all_ordered,
                   crashVars, windowVars, massVars>>

CallProcessDataFile ==
    /\ calls < MaxCalls
    /\ LET r == process_data_file(text_file, csv_file)
       IN /\ call_status' = r.status
          /\ text_file' = r.text_file
          /\ csv_file' = r.csv_file
          /\ all_ordered' =
                (all_ordered /\ (r.status = "ok" => TimeOrdered(NewData(text_file))))
    /\ calls' = calls + 1
    /\ UNCHANGED <<written, crashVars, windowVars, massVars>>

LoggerWrites == \E line \in LogLines : AppendLine(line)

InitFile == FileInit /\ CrashIdle /\ WindowIdle /\ MassIdle
NextFile == LoggerWrites \/ CallProcessDataFile
SpecFile == InitFile /\ [][NextFile]_vars

(***************************************************************************)
(* Properties of process_data_file                                         *)
(***************************************************************************)
AllParse(lines) == ParseError(lines) = "none"

\* The row stored for a line: every column but Time as parsed (Time is
\* stored with the offset of line 98 added).
StoresLine(row, line) ==
    /\ ParseLine(line).error = "none"
    /\ row.Lat = ParseLine(line).row.Lat
    /\ row.Long = ParseLine(line).row.Long

\* rows is old followed by one row for each of the lines, in order.
AppendedAfter(tbl, old, lines) ==
    /\ Len(tbl) = Len(old) + Len(lines)
    /\ SubSeq(tbl, 1, Len(old)) = old
    /\ \A i \in 1..Len(lines) : StoresLine(tbl[Len(old) + i], lines[i])

\* C7: every call on a text file of well-formed lines (an empty file
\* included) completes, leaves the CSV holding the rows stored before,
\* unchanged and in order, followed by the rows of the text file, and leaves
\* the text file empty.
C7_EveryCallAppendsAndWipes ==
    [][(calls' = calls + 1 /\ AllParse(text_file)) =>
          /\ call_status' = "ok"
          /\ csv_file'.exists
          /\ AppendedAfter(csv_file'.rows, csv_file.rows, text_file)
          /\ text_file' = <<>>]_vars

\* The lines the logger wrote that are no longer in the text file.
Archived == SubSeq(written, 1, Len(written) - Len(text_file))

NoLineLost ==
    /\ Len(text_file) <= Len(written)
    /\ text_file = SubSeq(written, Len(written) - Len(text_file) + 1, Len(written))
    /\ Len(csv_file.rows) = Len(Archived)
    /\ \A i \in 1..Len(Archived) : StoresLine(csv_file.rows[i], Archived[i])

\* C9: every line ever written to the text file is still in the text file
\* or stored as a row of the CSV, and a call that fails leaves the text file
\* and the CSV as they were.
C9_NoDataLoss ==
    /\ []NoLineLost
    /\ [][(calls' = calls + 1 /\ call_status' # "ok") =>
             (text_file' = text_file /\ csv_file' = csv_file)]_vars

\* A call that failed after an earlier one had stored rows, with the
\* unparsed lines still in the text file.
C9_Witness ==
    /\ call_status \in {"IndexError", "ValueError"}
    /\ calls >= 2
    /\ csv_file.rows # <<>>
    /\ text_file # <<>>

\* C10: when every text file stored so far had non-decreasing Time values
\* >= 0, the Time column of the CSV is non-decreasing, and a batch appended
\* to a non-empty CSV starts at its first Time value plus last_time + 1,
\* strictly after the last row stored before it.
C10_TimeOrderKept ==
    /\ [](all_ordered => NonDecreasing(Times(csv_file.rows)))
    /\ [][(calls' = calls + 1 /\ call_status' = "ok" /\ all_ordered'
           /\ csv_file.rows # <<>> /\ text_file # <<>>) =>
             LET last == csv_file.rows[Len(csv_file.rows)].Time
                 first == csv_file'.rows[Len(csv_file.rows) + 1].Time
             IN /\ first = ParseLine(text_file[1]).row.Time + last + 1
                /\ first > last]_vars

\* Two stored batches of ordered lines, the second one shifted.
C10_Witness ==
    /\ all_ordered
    /\ call_status = "ok"
    /\ Len(csv_file.rows) >= 3
    /\ \E i \in 2..Len(csv_file.rows) :
          /\ csv_file.rows[i].Time >= 2
          /\ written[i].Time = 0

====
